---- MODULE Spec2Model ----
(***************************************************************************)
(* Model of the per-device command dispatcher of TinxyLocalHub             *)
(* (custom_components/tinxylocal/hub.py): _queue_command, _device_worker   *)
(* and shutdown, running as asyncio tasks on one event loop, with the       *)
(* callers of the hub: the fan and lock entities, which go through the     *)
(* queue, and the switch entities (switch.py), which call tinxy_toggle     *)
(* themselves.                                                             *)
(*                                                                         *)
(* One action is one run of a coroutine from a suspension point to the     *)
(* next one (asyncio never preempts between two awaits).  Time is the      *)
(* value of time.time() in whole seconds; Tick lets a second pass between  *)
(* two coroutine steps.                                                    *)
(***************************************************************************)
EXTENDS Integers, Sequences, FiniteSets, TLC

\* ---------------------------------------------------------------- bounds
\* queue_limit and command_timeout are attributes of the hub (50 and 30.0
\* in __init__); the model runs the same code with a smaller configuration.
queue_limit == 2
command_timeout == 1
\* number of commands admitted in one run
MaxCmds == 3
\* seconds of wall-clock time that one run covers
Horizon == 2

\* ------------------------------------------------------ program constants
rate_limit_delay == 1
\* asyncio.sleep(1) after an error in the worker loop
ErrorSleep == 1

Devices == {"d1", "d2"}
Relays == {1, 2, 3}
CommandTypes == {"toggle", "brightness"}
\* the `action` of a toggle call (0 off, 1 on, 2 neither) or the `brightness`
\* of a brightness call
Values == {0, 1, 2}
\* what the tinxy-cli subprocess does: exit code 0, another exit code, or
\* create_subprocess_exec / communicate raising
ProcessOutcomes == {"rc0", "rc_nonzero", "exception"}

\* time.time() is seconds since the epoch: device_last_command starts at 0.0,
\* far more than rate_limit_delay in the past
StartTime == rate_limit_delay
MaxTime == StartTime + Horizon

NoCmd == 0
\* the default of QueuedCommand.action and QueuedCommand.brightness
None == -1
CmdIds == 1..MaxCmds

VARIABLES
    _shutdown,            \* self._shutdown
    device_queues,        \* self.device_queues: device -> sequence of command ids
    device_workers,       \* self.device_workers: device -> where its task stands
    device_last_command,  \* self.device_last_command: device -> time
    mqttpass,             \* device -> the argument `mqttpass` of its worker task
    commands,             \* the QueuedCommand objects created so far, by id, each
                          \* with the device and the mqttpass of the call that
                          \* created it
    future,               \* QueuedCommand.future of each command
    stale,                \* the worker sleeps out the rate limit and the deque in
                          \* its local `queue` has been replaced meanwhile
    command,              \* the worker's local `command`
    wake,                 \* earliest time at which the worker's sleep ends
    now,                  \* time.time()
    shutdown_pc,          \* where a call of shutdown() stands: "gather" in the
                          \* first call, "regather" in a later one
    last_call,            \* how the latest call of _queue_command ended (with the
                          \* relay it was for, when it got past the shutdown test)
    executed,             \* commands handed to tinxy_toggle / tinxy_set_brightness
    last_finish,          \* device -> time at which its latest execution ended
    spawned,              \* device -> number of asyncio.create_task calls for it
    dci_result,           \* what tinxy_toggle / tinxy_set_brightness returned for
                          \* each command ("none" before it has returned)
    returned,             \* what `return await future` gave the caller of each
                          \* command ("waiting" while the caller is suspended)
    direct,               \* device -> relays whose switch entity has a call of
                          \* tinxy_toggle in flight
    scope                 \* the run: the devices, relays, command types, values,
                          \* credentials and switch entities that take part,
                          \* self.queue_limit, the number of accepted calls, and
                          \* whether shutdown() is called more than once

vars == <<_shutdown, device_queues, device_workers, device_last_command, mqttpass,
          commands, future, stale, command, wake, now, shutdown_pc,
          last_call, executed, last_finish, spawned, dci_result, returned, direct,
          scope>>

NoCall == [device |-> "none", relay_number |-> 0, outcome |-> "none"]

\* the hub after __init__, before any call
Constructed ==
    /\ _shutdown = FALSE
    /\ device_queues = <<>>
    /\ device_workers = <<>>
    /\ device_last_command = <<>>
    /\ mqttpass = <<>>
    /\ commands = <<>>
    /\ future = <<>>
    /\ stale = [d \in Devices |-> FALSE]
    /\ command = [d \in Devices |-> NoCmd]
    /\ wake = [d \in Devices |-> 0]
    /\ now = StartTime
    /\ shutdown_pc = "idle"
    /\ last_call = NoCall
    /\ executed = {}
    /\ last_finish = [d \in Devices |-> 0]
    /\ spawned = [d \in Devices |-> 0]
    /\ dci_result = <<>>
    /\ returned = <<>>
    /\ direct = [d \in Devices |-> {}]

\* callers that switch the relays of one device
Init ==
    /\ Constructed
    /\ scope = [devices |-> {"d1"}, command_types |-> {"toggle"}, values |-> {1},
                credentials |-> {"pw1"}, switches |-> {}, relays |-> Relays,
                queue_limit |-> queue_limit,
                max_commands |-> MaxCmds, shutdown_again |-> FALSE]

\* ------------------------------------------------------------- helpers
\* `if cmd.future and not cmd.future.done(): cmd.future.set_...(v)`
SetFuture(f, c, v) == IF f[c] = "pending" THEN [f EXCEPT ![c] = v] ELSE f

RelaysIn(q) == {commands[q[i]].relay_number : i \in 1..Len(q)}

QueueOf(d) == IF d \in DOMAIN device_queues THEN device_queues[d] ELSE <<>>

\* a dict with key d set to v (added when absent)
Put(dict, d, v) == [k \in DOMAIN dict \cup {d} |-> IF k = d THEN v ELSE dict[k]]

\* as FirstReference, testing the deque itself (`if not self.device_queues.get(..)`)
FirstReferenceFalsy(d) == QueueOf(d) = <<>>

\* `if device_id not in self.device_queues`
FirstReference(d) == d \notin DOMAIN device_queues

\* a registry dict after the get-or-create block: key d is set to v on the
\* first reference to d
Register(dict, d, v) == IF FirstReference(d) THEN Put(dict, d, v) ELSE dict

\* --------------------------------------------------------- _queue_command
\* as Dedup, with the comparison of relay numbers never matching
DedupKeepAll(q, r) == q

\* as Dedup, with the commands that stay put in new_queue by appendleft
DedupReversed(q, r) ==
    LET kept == SelectSeq(q, LAMBDA c : commands[c].relay_number # r)
    IN [i \in 1..Len(kept) |-> kept[Len(kept) + 1 - i]]

\* the deque that the deduplication loop builds (new_queue)
Dedup(q, r) == SelectSeq(q, LAMBDA c : commands[c].relay_number # r)

\* as AdmissionCheck, without the test of self._shutdown
AdmissionCheckNoShutdown(d, r) ==
    IF Len(QueueOf(d)) >= scope.queue_limit THEN "QueueFull"
    ELSE "accepted"

\* as AdmissionCheck, with `>` for `>=`
AdmissionCheckOffByOne(d, r) ==
    IF _shutdown THEN "Shutdown"
    ELSE IF Len(QueueOf(d)) > scope.queue_limit THEN "QueueFull"
    ELSE "accepted"

\* as AdmissionCheck, with the queue limit tested after the deduplication
AdmissionCheckAfterDedup(d, r) ==
    IF _shutdown THEN "Shutdown"
    ELSE IF Len(Dedup(QueueOf(d), r)) >= scope.queue_limit THEN "QueueFull"
    ELSE "accepted"

\* the two early exits of _queue_command, in the order of the code
AdmissionCheck(d, r) ==
    IF _shutdown THEN "Shutdown"
    ELSE IF Len(QueueOf(d)) >= scope.queue_limit THEN "QueueFull"
    ELSE "accepted"

\* as Supersede, dropping the commands without failing their futures
SupersedeSilent(f, q, r) == f

\* as Supersede, cancelling also a command for relay r that a worker has
\* dequeued and is executing
SupersedeDequeued(f, q, r) ==
    [c \in DOMAIN f |->
        IF /\ \/ \E i \in 1..Len(q) : q[i] = c
              \/ \E d \in DOMAIN device_workers :
                    device_workers[d] \in {"exec", "fallback"} /\ command[d] = c
           /\ commands[c].relay_number = r
           /\ f[c] = "pending"
        THEN "Superseded" ELSE f[c]]

\* the futures after the deduplication loop cancelled the commands for relay r
Supersede(f, q, r) ==
    [c \in DOMAIN f |->
        IF /\ \E i \in 1..Len(q) : q[i] = c
           /\ commands[c].relay_number = r
           /\ f[c] = "pending"
        THEN "Superseded" ELSE f[c]]

\* as Enqueue, with appendleft
EnqueueLeft(q, c) == <<c>> \o q

\* `queue.append(command)`
Enqueue(q, c) == Append(q, c)

\* one call of queue_toggle_command / queue_brightness_command, up to its
\* `await future`
QueueCommand(d, m, r, t, v) ==
    /\ d \in scope.devices
    /\ m \in scope.credentials
    /\ r \in scope.relays
    /\ t \in scope.command_types
    /\ v \in scope.values
    /\ last_call' = [device |-> d, outcome |-> AdmissionCheck(d, r),
                     relay_number |-> IF AdmissionCheck(d, r) = "Shutdown" THEN 0 ELSE r]
    /\ IF AdmissionCheck(d, r) = "Shutdown"
       THEN UNCHANGED <<device_queues, device_workers, device_last_command, mqttpass,
                        commands, future, stale, spawned, dci_result, returned>>
       ELSE /\ device_workers' = Register(device_workers, d, "created")
            /\ mqttpass' = Register(mqttpass, d, m)
            /\ device_last_command' = Register(device_last_command, d, 0)
            /\ spawned' = IF FirstReference(d)
                          THEN [spawned EXCEPT ![d] = @ + 1] ELSE spawned
            /\ IF AdmissionCheck(d, r) = "QueueFull"
               THEN /\ device_queues' = Register(device_queues, d, <<>>)
                    /\ UNCHANGED <<commands, future, stale, dci_result, returned>>
               ELSE /\ Len(commands) < scope.max_commands
                    /\ device_queues' = Put(device_queues, d,
                                            Enqueue(Dedup(QueueOf(d), r), Len(commands) + 1))
                    /\ future' = Append(Supersede(future, QueueOf(d), r), "pending")
                    /\ dci_result' = Append(dci_result, "none")
                    /\ returned' = Append(returned, "waiting")
                    /\ commands' = Append(commands,
                                          [device |-> d, mqttpass |-> m,
                                           relay_number |-> r,
                                           command_type |-> t, timestamp |-> now,
                                           action |-> IF t = "toggle" THEN v ELSE None,
                                           brightness |-> IF t = "brightness" THEN v
                                                          ELSE None])
                    /\ stale' = [stale EXCEPT ![d] = (d \in DOMAIN device_workers
                                                      /\ device_workers[d] = "ratewait")]
    /\ UNCHANGED <<_shutdown, command, wake, now, shutdown_pc, executed, last_finish,
                   direct, scope>>

\* ------------------------------------------------ device control interface
\* tinxy_toggle: False at once for an action that is neither 0 nor 1;
\* otherwise True on exit code 0, False on any other (every exception of the
\* subprocess is caught and turned into False)
tinxy_toggle(a, p) ==
    IF a \notin {0, 1} THEN "False"
    ELSE IF p = "rc0" THEN "True" ELSE "False"

\* as tinxy_set_brightness, returning False where the fallback is awaited
tinxy_set_brightnessNoFallback(p) == IF p = "rc0" THEN "True" ELSE "False"

\* tinxy_set_brightness, whose subprocess does p: True on exit code 0; on any
\* other exit code and on any exception it goes on to
\* `return await self.tinxy_toggle(mqttpass, relay_number, 1)`, written
\* "fallback" here: the call has not returned, a second subprocess runs
tinxy_set_brightness(p) == IF p = "rc0" THEN "True" ELSE "fallback"

\* lines 497-508 for command c, whose subprocess does p
Execute(c, p) ==
    IF commands[c].command_type = "toggle"
    THEN tinxy_toggle(commands[c].action, p)
    ELSE IF commands[c].command_type = "brightness"
    THEN tinxy_set_brightness(p)
    ELSE "False"

\* the subprocess awaited by the worker of d ends with p: the one of the
\* command's own call, or the one of the fallback tinxy_toggle(.., 1)
SubprocessEnds(d, p) ==
    IF device_workers[d] = "fallback" THEN tinxy_toggle(1, p) ELSE Execute(command[d], p)

\* the call of lines 497-508 returns without reaching an await: tinxy_toggle
\* with an action that is neither 0 nor 1, or an unknown command type
ReturnsAtOnce(c) ==
    \/ commands[c].command_type = "toggle" /\ commands[c].action \notin {0, 1}
    \/ commands[c].command_type \notin {"toggle", "brightness"}

\* --------------------------------------------------------- _device_worker
\* as RateLimited, with the comparison turned round
RateLimitedReversed(l) == now - l > rate_limit_delay

\* `time_since_last < self.rate_limit_delay`, for device_last_command l
RateLimited(l) == now - l < rate_limit_delay

\* `time.time() - command.timestamp > self.command_timeout`
TimedOut(c) == now - commands[c].timestamp > command_timeout

RECURSIVE Iterate(_, _, _)
RECURSIVE Dequeue(_, _, _)

\* as Dequeue, without the `continue` after the timeout
DequeueNoContinue(q, f, l) ==
    LET c == Head(q) IN
    [pc |-> "exec", queue |-> Tail(q), command |-> c, wake |-> 0, last |-> l,
     ran |-> {c}, done |-> {},
     future |-> IF TimedOut(c) THEN SetFuture(f, c, "Timeout") ELSE f]

\* as Dequeue, with device_last_command also set when a stale command is
\* discarded
DequeueStamped(q, f, l) ==
    LET c == Head(q) IN
    IF TimedOut(c)
    THEN Iterate(Tail(q), SetFuture(f, c, "Timeout"), now)
    ELSE [pc |-> "exec", queue |-> Tail(q), future |-> f, command |-> c, wake |-> 0,
          last |-> l, ran |-> {c}, done |-> {}]

\* `command = queue.popleft()` and what follows it up to the next await:
\* a stale command is failed with "Command timeout" and the loop continues;
\* any other is handed to the device, where the worker awaits the subprocess
\* (a call that returns at once is over in the same run: its result is set,
\* device_last_command is now, and the loop continues)
Dequeue(q, f, l) ==
    LET c == Head(q) IN
    IF TimedOut(c)
    THEN Iterate(Tail(q), SetFuture(f, c, "Timeout"), l)
    ELSE IF ReturnsAtOnce(c)
    THEN LET res == Iterate(Tail(q), SetFuture(f, c, "False"), now)
         IN [res EXCEPT !.ran = @ \cup {c}, !.done = @ \cup {<<c, "False">>}]
    ELSE [pc |-> "exec", queue |-> Tail(q), future |-> f, command |-> c, wake |-> 0,
          last |-> l, ran |-> {c}, done |-> {}]

\* the loop body from `while not self._shutdown` to the next await, for the
\* registered deque q, the futures f and device_last_command l.  The poll
\* sleep of 0.1 s is shorter than a second: it sets no earliest wake time.
\* The result says where the worker stops (pc), what it leaves behind (queue,
\* future, last for device_last_command), which commands it handed to the
\* device control interface on the way (ran) and what the calls that came
\* back returned (done).
Iterate(q, f, l) ==
    IF _shutdown
    THEN [pc |-> "stopped", queue |-> q, future |-> f, command |-> NoCmd, wake |-> 0,
          last |-> l, ran |-> {}, done |-> {}]
    ELSE IF q = <<>>
    THEN [pc |-> "poll", queue |-> q, future |-> f, command |-> NoCmd,
          wake |-> 0, last |-> l, ran |-> {}, done |-> {}]
    ELSE IF RateLimited(l)
    THEN [pc |-> "ratewait", queue |-> q, future |-> f, command |-> NoCmd,
          wake |-> l + rate_limit_delay, last |-> l, ran |-> {}, done |-> {}]
    ELSE Dequeue(q, f, l)

\* the worker of d has run up to the await described by res
Suspend(d, res) ==
    /\ device_workers' = [device_workers EXCEPT ![d] = res.pc]
    /\ device_queues' = [device_queues EXCEPT ![d] = res.queue]
    /\ future' = res.future
    /\ command' = [command EXCEPT ![d] = res.command]
    /\ wake' = [wake EXCEPT ![d] = res.wake]
    /\ device_last_command' = [device_last_command EXCEPT ![d] = res.last]
    /\ executed' = executed \cup res.ran
    /\ dci_result' = [c \in DOMAIN dci_result |->
                        IF <<c, "True">> \in res.done THEN "True"
                        ELSE IF <<c, "False">> \in res.done THEN "False"
                        ELSE dci_result[c]]
    /\ last_finish' = IF res.done # {} THEN [last_finish EXCEPT ![d] = now]
                      ELSE last_finish

\* as Runnable, with the rate-limit wait done by time.sleep, which keeps the
\* event loop until it is over
RunnableBlocking(d) ==
    \A o \in DOMAIN device_workers :
        o # d => ~(device_workers[o] = "ratewait" /\ now < wake[o])

\* the event loop can run the task of d's worker: the other workers wait in
\* `await asyncio.sleep(..)` or in the await of a subprocess, which give the
\* loop back
Runnable(d) == TRUE

\* first run of the task created by _queue_command
WorkerStart(d) ==
    /\ d \in DOMAIN device_workers
    /\ device_workers[d] = "created"
    /\ Runnable(d)
    /\ Suspend(d, Iterate(device_queues[d], future, device_last_command[d]))
    /\ UNCHANGED stale
    /\ UNCHANGED <<_shutdown, commands, now, shutdown_pc, last_call, spawned, returned, direct,
                   mqttpass, scope>>

\* asyncio.sleep(0.1) on an empty queue, or asyncio.sleep(1) after an error,
\* is over: the loop starts again
WorkerResume(d) ==
    /\ d \in DOMAIN device_workers
    /\ device_workers[d] \in {"poll", "errsleep"}
    /\ Runnable(d)
    /\ now >= wake[d]
    /\ Suspend(d, Iterate(device_queues[d], future, device_last_command[d]))
    /\ UNCHANGED stale
    /\ UNCHANGED <<_shutdown, commands, now, shutdown_pc, last_call, spawned, returned, direct,
                   mqttpass, scope>>

\* as RateWaitWake, with the IndexError of popleft ending the worker task
RateWaitWakeDies(d) ==
    /\ d \in DOMAIN device_workers
    /\ device_workers[d] = "ratewait"
    /\ Runnable(d)
    /\ now >= wake[d]
    /\ IF stale[d]
       THEN /\ device_workers' = [device_workers EXCEPT ![d] = "stopped"]
            /\ UNCHANGED <<device_queues, device_last_command, future, command, wake,
                           executed, last_finish, dci_result>>
       ELSE Suspend(d, Dequeue(device_queues[d], future, device_last_command[d]))
    /\ stale' = [stale EXCEPT ![d] = FALSE]
    /\ UNCHANGED <<_shutdown, commands, now, shutdown_pc, last_call, spawned, returned, direct,
                   mqttpass, scope>>

\* the rate-limit sleep is over: popleft on the deque fetched before the
\* sleep.  A deque replaced by _queue_command meanwhile has been emptied by
\* it: popleft raises IndexError, caught by `except Exception` of the loop.
RateWaitWake(d) ==
    /\ d \in DOMAIN device_workers
    /\ device_workers[d] = "ratewait"
    /\ Runnable(d)
    /\ now >= wake[d]
    /\ IF stale[d]
       THEN /\ device_workers' = [device_workers EXCEPT ![d] = "errsleep"]
            /\ wake' = [wake EXCEPT ![d] = now + ErrorSleep]
            /\ UNCHANGED <<device_queues, device_last_command, future, command,
                           executed, last_finish, dci_result>>
       ELSE Suspend(d, Dequeue(device_queues[d], future, device_last_command[d]))
    /\ stale' = [stale EXCEPT ![d] = FALSE]
    /\ UNCHANGED <<_shutdown, commands, now, shutdown_pc, last_call, spawned, returned, direct,
                   mqttpass, scope>>

\* as ExecFinish, without the test of future.done() and with a command that
\* failed put back at the head of the deque for another attempt
ExecFinishRetry(d, p) ==
    /\ d \in DOMAIN device_workers
    /\ device_workers[d] = "exec"
    /\ Runnable(d)
    /\ LET c == command[d]
           result == Execute(c, p)
           again == IF result = "False" THEN <<c>> ELSE <<>>
           res == Iterate(again \o device_queues[d], [future EXCEPT ![c] = result], now)
       IN
       Suspend(d, [res EXCEPT !.done = @ \cup {<<c, result>>}])
    /\ UNCHANGED <<stale, _shutdown, commands, now, shutdown_pc, last_call, spawned, returned,
                   direct, mqttpass, scope>>

\* as ExecFinish, with device_last_command set only after a call that
\* returned True
ExecFinishStampOnSuccess(d, p) ==
    /\ d \in DOMAIN device_workers
    /\ device_workers[d] = "exec"
    /\ Runnable(d)
    /\ LET c == command[d]
           result == Execute(c, p)
           stamp == IF result = "True" THEN now ELSE device_last_command[d]
           res == Iterate(device_queues[d], SetFuture(future, c, result), stamp)
       IN
       Suspend(d, [res EXCEPT !.done = @ \cup {<<c, result>>}])
    /\ UNCHANGED <<stale, _shutdown, commands, now, shutdown_pc, last_call, spawned,
                   returned, direct, mqttpass, scope>>

\* the await of tinxy_toggle / tinxy_set_brightness returns: lines 510-515
\* (device_last_command is set to now, the future gets the result),
\* then the loop up to its next await.  Both calls catch every Exception of
\* the subprocess and return False, so the `except Exception` of lines
\* 517-522 is not entered.
ExecFinish(d, p) ==
    /\ d \in DOMAIN device_workers
    /\ device_workers[d] \in {"exec", "fallback"}
    /\ Runnable(d)
    /\ LET c == command[d]
           result == SubprocessEnds(d, p)
           res == Iterate(device_queues[d], SetFuture(future, c, result), now)
       IN
       IF result = "fallback"
       THEN /\ device_workers' = [device_workers EXCEPT ![d] = "fallback"]
            /\ UNCHANGED <<device_queues, device_last_command, future, command, wake,
                           executed, last_finish, dci_result>>
       ELSE Suspend(d, [res EXCEPT !.done = @ \cup {<<c, result>>}])
    /\ UNCHANGED stale
    /\ UNCHANGED <<_shutdown, commands, now, shutdown_pc, last_call, spawned, returned, direct,
                   mqttpass, scope>>

\* ---------------------------------------------------------------- shutdown
\* as ShutdownCall, without the test of worker.done(): every worker is
\* cancelled and awaited as a running one
ShutdownCallRecancel ==
    /\ shutdown_pc = "idle" \/ (shutdown_pc = "done" /\ scope.shutdown_again)
    /\ _shutdown' = TRUE
    /\ device_workers' = [d \in DOMAIN device_workers |-> "cancelling"]
    /\ shutdown_pc' = IF shutdown_pc = "done" THEN "regather" ELSE "gather"
    /\ wake' = [d \in Devices |-> 0]
    /\ stale' = [d \in Devices |-> FALSE]
    /\ UNCHANGED <<device_queues, device_last_command, commands, future,
                   command, now, last_call, executed, last_finish, spawned, dci_result, returned,
                   direct, mqttpass, scope>>

\* `self._shutdown = True` and worker.cancel() for every worker not done,
\* up to the await of asyncio.gather; called for the first time, or again
\* after an earlier call has returned
ShutdownCall ==
    /\ shutdown_pc = "idle" \/ (shutdown_pc = "done" /\ scope.shutdown_again)
    /\ _shutdown' = TRUE
    /\ device_workers' = [d \in DOMAIN device_workers |->
                            IF device_workers[d] # "stopped" THEN "cancelling"
                            ELSE "stopped"]
    /\ shutdown_pc' = IF shutdown_pc = "done" THEN "regather" ELSE "gather"
    /\ wake' = [d \in Devices |-> 0]
    /\ stale' = [d \in Devices |-> FALSE]
    /\ UNCHANGED <<device_queues, device_last_command, commands, future,
                   command, now, last_call, executed, last_finish, spawned, dci_result, returned,
                   direct, mqttpass, scope>>

\* CancelledError is thrown into the worker at the await where it stands
\* (or the task never starts): `except asyncio.CancelledError: break`
WorkerCancelled(d) ==
    /\ d \in DOMAIN device_workers
    /\ device_workers[d] = "cancelling"
    /\ device_workers' = [device_workers EXCEPT ![d] = "stopped"]
    /\ UNCHANGED <<_shutdown, device_queues, device_last_command, commands, future,
                   stale, command, wake, now, shutdown_pc, last_call, executed,
                   last_finish, spawned, dci_result, returned,
                   direct, mqttpass, scope>>

\* as ShutdownReturn, without the await of asyncio.gather: shutdown returns
\* when it has asked for the cancellations
ShutdownReturnAtOnce ==
    /\ shutdown_pc \in {"gather", "regather"}
    /\ shutdown_pc' = "done"
    /\ UNCHANGED <<_shutdown, device_queues, device_workers, device_last_command,
                   commands, future, stale, command, wake, now, last_call, executed,
                   last_finish, spawned, dci_result, returned,
                   direct, mqttpass, scope>>

\* asyncio.gather of the worker tasks returns
ShutdownReturn ==
    /\ shutdown_pc \in {"gather", "regather"}
    /\ \A d \in DOMAIN device_workers : device_workers[d] = "stopped"
    /\ shutdown_pc' = "done"
    /\ UNCHANGED <<_shutdown, device_queues, device_workers, device_last_command,
                   commands, future, stale, command, wake, now, last_call, executed,
                   last_finish, spawned, dci_result, returned,
                   direct, mqttpass, scope>>

\* a second of wall-clock time passes
Tick ==
    /\ now < MaxTime
    /\ now' = now + 1
    /\ UNCHANGED <<_shutdown, device_queues, device_workers, device_last_command,
                   commands, future, stale, command, wake, shutdown_pc, last_call,
                   executed, last_finish, spawned, dci_result, returned,
                   direct, mqttpass, scope>>

\* a caller of the run calls queue_toggle_command or queue_brightness_command
Admission ==
    \E d \in scope.devices, m \in scope.credentials, r \in scope.relays,
       t \in scope.command_types, v \in scope.values :
        QueueCommand(d, m, r, t, v)

Next ==
    \/ Admission
    \/ \E d \in Devices : WorkerStart(d)
    \/ \E d \in Devices : WorkerResume(d)
    \/ \E d \in Devices : RateWaitWake(d)
    \/ \E d \in Devices, p \in ProcessOutcomes : ExecFinish(d, p)
    \/ ShutdownCall
    \/ \E d \in Devices : WorkerCancelled(d)
    \/ ShutdownReturn
    \/ Tick

Spec == Init /\ [][Next]_vars

\* ---------------------------------------------------------- switch entities
\* switch.py, TinxySwitch.async_turn_on / async_turn_off: the entity of relay
\* r calls hub.tinxy_toggle itself, up to the await of the subprocess
SwitchTurn(d, r) ==
    /\ d \in scope.devices
    /\ r \in scope.switches
    /\ r \notin direct[d]
    /\ direct' = [direct EXCEPT ![d] = @ \cup {r}]
    /\ UNCHANGED <<_shutdown, device_queues, device_workers, device_last_command,
                   commands, future, stale, command, wake, now, shutdown_pc,
                   last_call, executed, last_finish, spawned, dci_result, returned,
                   mqttpass, scope>>

\* the subprocess of that call ends and tinxy_toggle returns to the entity
SwitchTurnDone(d, r) ==
    /\ r \in direct[d]
    /\ direct' = [direct EXCEPT ![d] = @ \ {r}]
    /\ UNCHANGED <<_shutdown, device_queues, device_workers, device_last_command,
                   commands, future, stale, command, wake, now, shutdown_pc,
                   last_call, executed, last_finish, spawned, dci_result, returned,
                   mqttpass, scope>>

\* a device with a fan or lock entity (queued commands) and a switch entity
\* on relay 1
InitEntities ==
    /\ Constructed
    /\ scope = [devices |-> {"d1"}, command_types |-> {"toggle"}, values |-> {1},
                credentials |-> {"pw1"}, switches |-> {1}, relays |-> Relays,
                queue_limit |-> queue_limit,
                max_commands |-> MaxCmds, shutdown_again |-> FALSE]

NextEntities ==
    \/ Next
    \/ \E d \in Devices, r \in Relays : SwitchTurn(d, r)
    \/ \E d \in Devices, r \in Relays : SwitchTurnDone(d, r)

SpecEntities == InitEntities /\ [][NextEntities]_vars

\* ------------------------------------------------------------ a longer queue
\* a hub whose queue_limit leaves room for a third pending command
InitOrder ==
    /\ Constructed
    /\ scope = [devices |-> {"d1"}, command_types |-> {"toggle"}, values |-> {1},
                credentials |-> {"pw1"}, switches |-> {}, relays |-> Relays,
                queue_limit |-> queue_limit + 1,
                max_commands |-> MaxCmds, shutdown_again |-> FALSE]

SpecOrder == InitOrder /\ [][Next]_vars

\* ----------------------------------------------------------- two devices
\* callers that switch relay 1 of two devices
InitTwoDevices ==
    /\ Constructed
    /\ scope = [devices |-> Devices, command_types |-> {"toggle"}, values |-> {1},
                credentials |-> {"pw1"}, switches |-> {}, relays |-> {1},
                queue_limit |-> queue_limit,
                max_commands |-> MaxCmds, shutdown_again |-> FALSE]

\* the hub while nobody calls shutdown()
NextRunning ==
    \/ Admission
    \/ \E d \in Devices : WorkerStart(d)
    \/ \E d \in Devices : WorkerResume(d)
    \/ \E d \in Devices : RateWaitWake(d)
    \/ \E d \in Devices, p \in ProcessOutcomes : ExecFinish(d, p)
    \/ Tick

SpecTwoDevices == InitTwoDevices /\ [][NextRunning]_vars

\* ------------------------------------------------------- repeated shutdown
\* callers that switch relays 1 and 2 of one device, and a hub that is shut
\* down any number of times
InitShutdownAgain ==
    /\ Constructed
    /\ scope = [devices |-> {"d1"}, command_types |-> {"toggle"}, values |-> {1},
                credentials |-> {"pw1"}, switches |-> {}, relays |-> {1, 2},
                queue_limit |-> queue_limit,
                max_commands |-> MaxCmds, shutdown_again |-> TRUE]

SpecShutdownAgain == InitShutdownAgain /\ [][Next]_vars

\* ---------------------------------------------------------------- callers
\* as Awaited, for a caller that does not wait for its future
AwaitedNot(c) == TRUE

\* `await future` of _queue_command can return or raise: the future is done
Awaited(c) == future[c] # "pending"

\* `return await future`: the caller of command c gets the result of the
\* future, or the exception set on it is raised
CallerReturn(c) ==
    /\ c \in DOMAIN returned
    /\ returned[c] = "waiting"
    /\ Awaited(c)
    /\ returned' = [returned EXCEPT ![c] = IF future[c] \in {"True", "False"}
                                           THEN future[c] ELSE "raised"]
    /\ UNCHANGED <<_shutdown, device_queues, device_workers, device_last_command,
                   commands, future, stale, command, wake, now, shutdown_pc,
                   last_call, executed, last_finish, spawned, dci_result, direct,
                   mqttpass, scope>>

\* callers that switch relays 1 and 2 of one device, seen until they return
InitCallers ==
    /\ Constructed
    /\ scope = [devices |-> {"d1"}, command_types |-> {"toggle"}, values |-> {1},
                credentials |-> {"pw1"}, switches |-> {}, relays |-> {1, 2},
                queue_limit |-> queue_limit,
                max_commands |-> MaxCmds, shutdown_again |-> FALSE]

NextCallers ==
    \/ NextRunning
    \/ \E c \in CmdIds : CallerReturn(c)

SpecCallers == InitCallers /\ [][NextCallers]_vars

\* ------------------------------------------------------- any toggle action
\* callers of queue_toggle_command that pass 1 or 2 as the action
InitActions ==
    /\ Constructed
    /\ scope = [devices |-> {"d1"}, command_types |-> {"toggle"}, values |-> {1, 2},
                credentials |-> {"pw1"}, switches |-> {}, relays |-> Relays,
                queue_limit |-> queue_limit,
                max_commands |-> MaxCmds, shutdown_again |-> FALSE]

SpecActions == InitActions /\ [][NextRunning]_vars

\* ------------------------------------------------- brightness commands too
\* callers of queue_toggle_command and of queue_brightness_command
InitBrightness ==
    /\ Constructed
    /\ scope = [devices |-> {"d1"}, command_types |-> CommandTypes, values |-> {1},
                credentials |-> {"pw1"}, switches |-> {}, relays |-> {1},
                queue_limit |-> queue_limit,
                max_commands |-> MaxCmds, shutdown_again |-> FALSE]

SpecBrightness == InitBrightness /\ [][NextRunning]_vars

\* --------------------------------------------------- more than one credential
\* callers that pass one of two credentials for the same device
InitCredentials ==
    /\ Constructed
    /\ scope = [devices |-> {"d1"}, command_types |-> {"toggle"}, values |-> {1},
                credentials |-> {"pw1", "pw2"}, switches |-> {}, relays |-> {1, 2},
                queue_limit |-> queue_limit,
                max_commands |-> MaxCmds, shutdown_again |-> FALSE]

SpecCredentials == InitCredentials /\ [][NextRunning]_vars

\* ------------------------------------------- two devices with three relays
\* callers that switch the relays of two devices, with one call more and
\* the queues taking one command more
InitFrame ==
    /\ Constructed
    /\ scope = [devices |-> Devices, command_types |-> {"toggle"}, values |-> {1},
                credentials |-> {"pw1"}, switches |-> {}, relays |-> Relays,
                queue_limit |-> queue_limit + 1,
                max_commands |-> MaxCmds + 1, shutdown_again |-> FALSE]

\* the steps of a run that takes less than a second: no shutdown, and no
\* rate-limit wait comes to its end
NextWithinASecond ==
    \/ Admission
    \/ \E d \in Devices : WorkerStart(d)
    \/ \E d \in Devices : WorkerResume(d)
    \/ \E d \in Devices, p \in ProcessOutcomes : ExecFinish(d, p)

SpecFrame == InitFrame /\ [][NextWithinASecond]_vars


\* ------------------------------------------------------------ definitions
Admitted == 1..Len(commands)

InQueue(c, q) == \E i \in 1..Len(q) : q[i] = c

Resolved(c) == future[c] # "pending"

\* the calls of tinxy_toggle / tinxy_set_brightness for device d that have
\* started their subprocess and not returned
InProgress(d) ==
    Cardinality(direct[d])
    + (IF d \in DOMAIN device_workers /\ device_workers[d] \in {"exec", "fallback"}
       THEN 1 ELSE 0)

\* the worker of d awaits the execution of command c
InHand(d, c) ==
    /\ d \in DOMAIN device_workers
    /\ device_workers[d] \in {"exec", "fallback"}
    /\ command[d] = c

\* the credential that the worker passes to tinxy_toggle /
\* tinxy_set_brightness for command c: its own argument `mqttpass`
CredentialUsed(c) == mqttpass[commands[c].device]

\* worker b is suspended in its rate-limit sleep or in an execution
Waiting(b) ==
    /\ b \in DOMAIN device_workers
    /\ \/ device_workers[b] = "ratewait" /\ now < wake[b]
       \/ device_workers[b] \in {"exec", "fallback"}

\* the worker of a stands at an await that is over, with a command at the
\* head of its queue that is neither rate-limited nor timed out
Ready(a) ==
    /\ a \in DOMAIN device_workers
    /\ device_workers[a] \in {"created", "poll", "errsleep", "ratewait"}
    /\ device_workers[a] = "ratewait" => ~stale[a]
    /\ now >= wake[a]
    /\ device_queues[a] # <<>>
    /\ ~RateLimited(device_last_command[a])
    /\ ~TimedOut(Head(device_queues[a]))

\* a step of the worker of a
WorkerStep(a) == WorkerStart(a) \/ WorkerResume(a) \/ RateWaitWake(a)

\* ------------------------------------------------------------------ claims

\* C1: every admitted command eventually has its future resolved, also when
\* shutdown() is called while it is queued or executing.  In finite form:
\* once shutdown() has returned (every worker is done and nothing resolves a
\* future any more) no admitted command is left unresolved.
C1_AllResolvedAfterShutdown ==
    shutdown_pc = "done" => \A c \in Admitted : Resolved(c)

\* C2: a future that holds a result or an error is never given another one.
C2_ResolvedAtMostOnce ==
    [][\A c \in Admitted : Resolved(c) => future'[c] = future[c]]_vars

\* a command was superseded, one timed out, one was executed and resolved,
\* and shutdown() was called
C2_Witness ==
    /\ _shutdown
    /\ \E c \in Admitted : future[c] = "Superseded"
    /\ \E c \in Admitted : future[c] = "Timeout"
    /\ \E c \in Admitted : future[c] \in {"True", "False"}

\* C3: after shutdown() every command still waiting in a pending queue is
\* resolved with ShutdownError.  In finite form: when shutdown() has returned,
\* the commands left in the queues hold ShutdownError.
C3_QueuedGetShutdownError ==
    shutdown_pc = "done" =>
        \A d \in DOMAIN device_queues : \A i \in 1..Len(device_queues[d]) :
            future[device_queues[d][i]] = "ShutdownError"

\* C4: once shutdown() has been called, a call of _queue_command fails with
\* the shutdown error and changes no queue, registry entry, worker or
\* command: no step adds a command, a registry entry or a worker.
C4_RejectedAfterShutdown ==
    [][_shutdown =>
          /\ last_call' # last_call =>
                /\ last_call'.outcome = "Shutdown"
                /\ UNCHANGED <<device_queues, device_workers, device_last_command,
                               commands, future>>
          /\ commands' = commands
          /\ DOMAIN device_queues' = DOMAIN device_queues
          /\ DOMAIN device_workers' = DOMAIN device_workers
          /\ \A d \in DOMAIN device_queues :
                Len(device_queues'[d]) <= Len(device_queues[d])]_vars

\* after shutdown() a call for a device never seen before was turned away
C4_Witness ==
    /\ _shutdown
    /\ last_call.outcome = "Shutdown"
    /\ last_call.device \notin DOMAIN device_queues
    /\ last_call.device \notin DOMAIN device_workers

\* C5: no pending queue is ever longer than queue_limit.
C5_QueueBounded ==
    \A d \in DOMAIN device_queues : Len(device_queues[d]) <= scope.queue_limit

\* a queue is at the limit and a further admission was turned away
C5_Witness ==
    /\ last_call.outcome = "QueueFull"
    /\ \E d \in DOMAIN device_queues : Len(device_queues[d]) = scope.queue_limit

\* C6 as stated: with queue_limit commands pending, an admission for the
\* device fails with QueueFull whatever its relay, and changes neither the
\* queue nor any future; no command is admitted to a full queue.
C6_FullQueueAlwaysQueueFull ==
    [][/\ (/\ last_call' # last_call
           /\ Len(QueueOf(last_call'.device)) >= scope.queue_limit) =>
              /\ last_call'.outcome = "QueueFull"
              /\ UNCHANGED <<device_queues, future>>
       /\ commands' # commands =>
              Len(QueueOf(commands'[Len(commands')].device)) < scope.queue_limit]_vars

\* C6 amended: with queue_limit commands pending and shutdown() not called,
\* an admission for the device fails with QueueFull whatever its relay; after
\* shutdown() it fails with the shutdown error; either way it changes neither
\* the queue nor any future, and no command is admitted to a full queue.
C6_FullQueueRejects ==
    [][/\ (/\ last_call' # last_call
           /\ Len(QueueOf(last_call'.device)) >= scope.queue_limit) =>
              /\ last_call'.outcome = IF _shutdown THEN "Shutdown" ELSE "QueueFull"
              /\ UNCHANGED <<device_queues, future>>
       /\ commands' # commands =>
              Len(QueueOf(commands'[Len(commands')].device)) < scope.queue_limit]_vars

\* an admission was turned away with QueueFull although a command for its
\* relay stood in the full queue
C6_Witness ==
    /\ ~_shutdown
    /\ last_call.outcome = "QueueFull"
    /\ Len(QueueOf(last_call.device)) = scope.queue_limit
    /\ last_call.relay_number \in RelaysIn(QueueOf(last_call.device))

\* C7: a pending queue holds at most one command for a relay.
C7_OnePerRelay ==
    \A d \in DOMAIN device_queues :
        \A i, j \in 1..Len(device_queues[d]) :
            i # j => commands[device_queues[d][i]].relay_number
                     # commands[device_queues[d][j]].relay_number

\* two commands are pending after an admission superseded an older command
C7_Witness ==
    /\ \E c \in Admitted : future[c] = "Superseded"
    /\ \E d \in DOMAIN device_queues : Len(device_queues[d]) = 2

\* C8: when a command is admitted, a pending command for the same relay of
\* the same device is removed from the queue and resolved with Superseded, and
\* a superseded command is never executed.
C8_SupersededNeverExecuted ==
    /\ [][commands' # commands =>
            LET new == commands'[Len(commands')]
                old == QueueOf(new.device)
            IN \A i \in 1..Len(old) :
                 commands[old[i]].relay_number = new.relay_number =>
                    /\ future'[old[i]] = "Superseded"
                    /\ ~InQueue(old[i], device_queues'[new.device])
                    /\ old[i] \notin executed']_vars
    /\ [](\A c \in Admitted : future[c] = "Superseded" => c \notin executed)

\* a command was superseded and the newer command for its relay executed
C8_Witness ==
    \E c, n \in Admitted :
        /\ c < n
        /\ commands[c].device = commands[n].device
        /\ commands[c].relay_number = commands[n].relay_number
        /\ future[c] = "Superseded"
        /\ n \in executed

\* C9: an execution against a device starts no earlier than rate_limit_delay
\* after the previous execution against that device ended.
C9_RateLimit ==
    [][\A c \in executed' \ executed :
          now' >= last_finish'[commands[c].device] + rate_limit_delay]_vars

\* a second command is executing on a device
C9_Witness ==
    \E c, n \in executed :
        /\ c # n
        /\ commands[c].device = commands[n].device
        /\ future[c] \in {"True", "False"}
        /\ command[commands[n].device] = n

\* C10: a command dequeued after waiting more than command_timeout is resolved
\* with Timeout and is never executed, and the worker goes on with the next
\* command (it executes one, or finds the queue empty).
C10_TimedOutNeverExecuted ==
    /\ [][commands' = commands =>
            \A d \in DOMAIN device_queues : \A i \in 1..Len(device_queues[d]) :
                LET c == device_queues[d][i] IN
                (/\ ~InQueue(c, device_queues'[d])
                 /\ now - commands[c].timestamp > command_timeout) =>
                    /\ future'[c] = "Timeout"
                    /\ c \notin executed'
                    /\ device_workers'[d] \in {"exec", "poll"}
                    /\ device_workers'[d] = "poll" => device_queues'[d] = <<>>]_vars
    /\ [](\A c \in Admitted : future[c] = "Timeout" => c \notin executed)

\* a command timed out and the worker went on to execute a later one
C10_Witness ==
    \E c, n \in Admitted :
        /\ c < n
        /\ commands[c].device = commands[n].device
        /\ future[c] = "Timeout"
        /\ n \in executed

\* C11: at most one worker task is ever created for a device, however many
\* admissions arrive for it: the task is created on the first reference to
\* the device, and a registered device has exactly one.
C11_OneWorkerPerDevice ==
    \A d \in Devices :
        /\ spawned[d] <= 1
        /\ spawned[d] = 1 <=> d \in DOMAIN device_workers
        /\ d \in DOMAIN device_workers <=> d \in DOMAIN device_queues

\* three commands were admitted for a device, one of them is resolved and
\* another is pending in the queue, and the device has its one worker
C11_Witness ==
    \E d \in DOMAIN device_workers :
        /\ spawned[d] = 1
        /\ Cardinality({c \in Admitted : commands[c].device = d}) >= 3
        /\ \E c \in Admitted : commands[c].device = d /\ Resolved(c)
        /\ device_queues[d] # <<>>

\* C12: the commands that the switch, fan and lock entities of a device issue
\* are serialized: at no time are two executions against the device in
\* progress.
C12_OneExecutionAtATime ==
    \A d \in Devices : InProgress(d) <= 1

\* C13: a pending queue stands in admission order with the newest command at
\* its tail, and whatever has been handed to the device was admitted before
\* everything still pending: the commands of a device that are executed are
\* executed in the order of their admission.
C13_AdmissionOrder ==
    \A d \in DOMAIN device_queues :
        LET q == device_queues[d] IN
        /\ \A i, j \in 1..Len(q) : i < j => q[i] < q[j]
        /\ \A c \in executed : \A i \in 1..Len(q) :
              commands[c].device = d => c < q[i]

\* command n superseded c, which stood in front of a; a was executed first
\* and n is executing after it
C13_Witness ==
    \E c, a, n \in Admitted :
        /\ c < a /\ a < n
        /\ commands[c].device = commands[a].device
        /\ commands[a].device = commands[n].device
        /\ commands[c].relay_number = commands[n].relay_number
        /\ future[c] = "Superseded"
        /\ future[a] \in {"True", "False"}
        /\ command[commands[n].device] = n
        /\ device_workers[commands[n].device] = "exec"

\* C14: while the worker of device b is suspended in its rate-limit wait or
\* in an execution, the worker of another device a whose own wait is over
\* can take its next step, and that step dequeues the head of a's queue and
\* starts its execution; no step of b's worker touches a's queue or worker.
C14_OtherDeviceProgresses ==
    \A a, b \in Devices :
        (a # b /\ Waiting(b) /\ Ready(a)) =>
            ENABLED (/\ WorkerStep(a)
                     /\ device_workers'[a] = "exec"
                     /\ command'[a] = Head(device_queues[a])
                     /\ device_workers'[b] = device_workers[b])

\* device a executes a command admitted after the command that device b still
\* holds pending in its rate-limit wait
C14_Witness ==
    \E a, b \in DOMAIN device_workers :
        /\ a # b
        /\ device_workers[b] = "ratewait" /\ now < wake[b]
        /\ device_queues[b] # <<>>
        /\ device_workers[a] = "exec"
        /\ Head(device_queues[b]) < command[a]

\* C15: queue_toggle_command with an action that is neither 0 nor 1 is
\* rejected without enqueuing: no toggle command with such an action is ever
\* created and appended to a queue.
C15_InvalidActionNotEnqueued ==
    \A c \in Admitted :
        commands[c].command_type = "toggle" => commands[c].action \in {0, 1}

\* C16: a call of shutdown() after an earlier call has returned changes
\* nothing in the dispatcher (no queue, worker, future or time), finds every
\* worker stopped, so that its gather returns at once, and leaves the hub
\* refusing admissions; the same holds when it returns.
C16_ShutdownIdempotent ==
    /\ [][(shutdown_pc = "done" \/ shutdown_pc' = "regather" \/ shutdown_pc = "regather") =>
            UNCHANGED <<_shutdown, device_queues, device_workers, device_last_command,
                        commands, future, command, executed>>]_vars
    /\ [](shutdown_pc \in {"done", "regather"} =>
            /\ _shutdown
            /\ \A d \in DOMAIN device_workers : device_workers[d] = "stopped"
            /\ \A d \in Devices, r \in Relays : AdmissionCheck(d, r) = "Shutdown")

\* shutdown() was called again with a command left in a queue and a stopped
\* worker, and an admission was turned away since
C16_Witness ==
    /\ shutdown_pc = "regather"
    /\ \E d \in DOMAIN device_workers : device_workers[d] = "stopped"
    /\ \E d \in DOMAIN device_queues : device_queues[d] # <<>>
    /\ last_call.outcome = "Shutdown"

\* C17: no admission call hangs, and a call that fails does so within
\* command_timeout of its admission.  In finite form: once shutdown() has
\* returned (no worker is left to resolve anything) no caller is still
\* waiting on a future more than command_timeout after its admission.
C17_NoCallerWaitsBeyondTimeout ==
    shutdown_pc = "done" =>
        \A c \in Admitted :
            future[c] = "pending" => now - commands[c].timestamp <= command_timeout

\* C18: the caller of an admitted command gets its answer only when the
\* command's own future is resolved, and a boolean it gets is the value that
\* tinxy_toggle / tinxy_set_brightness returned for the execution of that very
\* command; a future holds a boolean only if the device control interface
\* returned it for its command.
C18_ReturnsOwnResult ==
    \A c \in Admitted :
        /\ returned[c] # "waiting" => Resolved(c)
        /\ returned[c] \in {"True", "False"} =>
              (c \in executed /\ returned[c] = dci_result[c])
        /\ returned[c] = "raised" => future[c] \in {"Superseded", "Timeout"}
        /\ future[c] \in {"True", "False"} => future[c] = dci_result[c]

\* two callers have returned, one with True and one with False, and a third
\* had its exception raised
C18_Witness ==
    \E a, b, c \in Admitted :
        /\ returned[a] = "True" /\ dci_result[a] = "True"
        /\ returned[b] = "False" /\ dci_result[b] = "False"
        /\ returned[c] = "raised"

\* C19: when the subprocess of a command's execution raises (the device
\* control interface fails with a connection or protocol error), the
\* command's future is resolved with that error and not with a result value.
C19_ExecutionErrorPropagates ==
    [][\A d \in Devices :
          ExecFinish(d, "exception") => future'[command[d]] \notin {"True", "False"}]_vars

\* C20: device_last_command of a device changes only in the step in which
\* its worker comes back from the execution of a command (it then holds the
\* time of that step, and the command's future the result); every other step
\* (an admission that is accepted, rejected or supersedes, the rate-limit
\* wait, a dequeue, the discard of a stale command, shutdown) leaves it as it
\* is.  A device not yet registered counts as 0.0, the value it is registered
\* with.  At any time it is the time at which the latest execution ended.
C20_LastCommandFrame ==
    /\ [][\A d \in Devices :
            LET before == IF d \in DOMAIN device_last_command
                          THEN device_last_command[d] ELSE 0
                after == IF d \in DOMAIN device_last_command'
                         THEN device_last_command'[d] ELSE 0
            IN after # before =>
                  /\ d \in DOMAIN device_workers
                  /\ device_workers[d] \in {"exec", "fallback"}
                  /\ future'[command[d]] \in {"True", "False"}
                  /\ after = now
                  /\ commands' = commands]_vars
    /\ [](\A d \in DOMAIN device_last_command :
            device_last_command[d] = last_finish[d])

\* after an execution ended, a command admitted later was superseded or
\* discarded as stale and an admission was rejected, and device_last_command
\* still holds the earlier time at which the execution ended
C20_Witness ==
    \E d \in DOMAIN device_last_command :
        /\ device_last_command[d] > 0
        /\ device_last_command[d] < now
        /\ \E c \in Admitted :
              /\ commands[c].device = d
              /\ commands[c].timestamp > device_last_command[d]
              /\ future[c] \in {"Superseded", "Timeout"}
        /\ last_call.outcome \in {"QueueFull", "Shutdown"}

\* C21: whenever the worker comes back from the execution of a command,
\* whether its subprocess exited with 0, exited with another code or raised,
\* device_last_command of the device is the time of that step; and while a
\* later command executes, at least rate_limit_delay has passed since then.
C21_StampedOnEveryCompletion ==
    /\ [][\A d \in Devices, p \in ProcessOutcomes :
            (ExecFinish(d, p) /\ device_workers'[d] # "fallback") =>
                device_last_command'[d] = now]_vars
    /\ [](\A d \in DOMAIN device_workers :
            device_workers[d] \in {"exec", "fallback"} =>
                now >= device_last_command[d] + rate_limit_delay)

\* an execution returned True, a later one returned False, and the worker
\* waits out the rate limit counted from the end of the latest one
C21_Witness ==
    \E d \in DOMAIN device_workers : \E a, b \in Admitted :
        /\ a < b
        /\ commands[a].device = d /\ commands[b].device = d
        /\ dci_result[a] = "True" /\ dci_result[b] = "False"
        /\ device_workers[d] = "ratewait"
        /\ wake[d] = device_last_command[d] + rate_limit_delay
        /\ device_last_command[d] > commands[b].timestamp

C23_StoppedWhenShutdownReturns ==
    /\ [](shutdown_pc \in {"done", "regather"} =>
            \A d \in DOMAIN device_workers : device_workers[d] = "stopped")
    /\ [][(shutdown_pc \in {"done", "regather"}) =>
            /\ device_workers' = device_workers
            /\ device_queues' = device_queues
            /\ command' = command
            /\ executed' = executed]_vars

\* shutdown has returned while a command stood in a queue and another was
\* in the worker's hand, and an admission was made afterwards
C23_Witness ==
    /\ shutdown_pc = "done"
    /\ last_call.outcome = "Shutdown"
    /\ \E d \in DOMAIN device_workers :
          /\ device_queues[d] # <<>>
          /\ command[d] # NoCmd
          /\ future[command[d]] = "pending"

\* C24: a command that its worker was executing when shutdown() cancelled it
\* has its future resolved: once the cancelled worker has stopped, the
\* command left in its hand is not pending.
C24_ExecutingResolvedOnCancel ==
    \A d \in DOMAIN device_workers :
        (device_workers[d] = "stopped" /\ command[d] # NoCmd) =>
            Resolved(command[d])

\* C25: as long as shutdown() has not been called, every device that an
\* admission call has named has its three registry entries and a worker task
\* that is not done and was created once; no step removes an entry, and the
\* IndexError raised in the worker loop leaves the worker alive.
C25_WorkerLivesUntilShutdown ==
    /\ [](~_shutdown =>
            /\ last_call.device \in Devices => last_call.device \in DOMAIN device_workers
            /\ \A c \in Admitted : commands[c].device \in DOMAIN device_workers
            /\ DOMAIN device_queues = DOMAIN device_workers
            /\ DOMAIN device_last_command = DOMAIN device_workers
            /\ \A d \in DOMAIN device_workers :
                  /\ device_workers[d] \notin {"cancelling", "stopped"}
                  /\ spawned[d] = 1)
    /\ [][/\ DOMAIN device_workers \subseteq DOMAIN device_workers'
          /\ DOMAIN device_queues \subseteq DOMAIN device_queues'
          /\ DOMAIN device_last_command \subseteq DOMAIN device_last_command']_vars

\* popleft raised IndexError in the worker loop after an execution, and
\* the worker sleeps the second of line 528 with its registry entries in
\* place and a command waiting in its queue
C25_Witness ==
    /\ ~_shutdown
    /\ \E d \in DOMAIN device_workers :
          /\ device_workers[d] = "errsleep"
          /\ device_queues[d] # <<>>
          /\ device_last_command[d] > 0
          /\ \E a \in Admitted : commands[a].device = d /\ future[a] \in {"True", "False"}

\* C26: the step in which a worker comes out of its rate-limit wait takes the
\* head of the queue registered for its device at that moment, also when an
\* admission has replaced the queue during the wait, and raises no error in
\* the worker loop.
C26_DequeuesRegisteredQueue ==
    [][\A d \in DOMAIN device_workers :
          (device_workers[d] = "ratewait" /\ device_workers'[d] \notin {"ratewait", "cancelling"}) =>
              /\ device_workers'[d] # "errsleep"
              /\ device_queues[d] # <<>>
              /\ ~InQueue(Head(device_queues[d]), device_queues'[d])]_vars

\* C27: in every state, a command whose future is pending is in the queue of
\* its device or is the command that the (unfinished) worker of its device
\* has dequeued and holds, and a command whose future is resolved is in no
\* queue.
C27_PendingIsQueuedOrInHand ==
    \A c \in Admitted :
        LET d == commands[c].device IN
        /\ ~Resolved(c) =>
              \/ InQueue(c, QueueOf(d))
              \/ /\ d \in DOMAIN device_workers
                 /\ device_workers[d] \in {"exec", "fallback", "cancelling"}
                 /\ command[d] = c
        /\ Resolved(c) => \A o \in DOMAIN device_queues : ~InQueue(c, device_queues[o])

\* C28: every command handed to the device control interface is executed
\* with the credential that was passed in the admission call that created
\* it, also when the calls for one device pass different credentials.
C28_ExecutedWithOwnCredential ==
    \A c \in executed : CredentialUsed(c) = commands[c].mqttpass

\* C29: an admission for the relay of the command that the device's worker
\* has dequeued and is executing leaves that command in the worker's hand
\* with its future pending and puts the new command in the queue, not yet
\* executed; a command in a worker's hand is pending in every state, and the
\* return of its execution resolves its future with the result.
C29_DequeuedNotSuperseded ==
    /\ [][\A d \in DOMAIN device_workers :
            LET c == command[d]
                n == Len(commands')
            IN
            (/\ InHand(d, c)
             /\ commands' # commands
             /\ commands'[n].device = d
             /\ commands'[n].relay_number = commands[c].relay_number) =>
                /\ InHand(d, c)'
                /\ future'[c] = "pending"
                /\ InQueue(n, device_queues'[d])
                /\ n \notin executed']_vars
    /\ [](\A d \in DOMAIN device_workers : InHand(d, command[d]) => ~Resolved(command[d]))
    /\ [][\A d \in Devices, p \in ProcessOutcomes :
            (ExecFinish(d, p) /\ device_workers'[d] # "fallback") =>
                future'[command[d]] \in {"True", "False"}]_vars

\* while the worker executes a command, two more for the same relay were
\* admitted: the first of them was superseded by the second, which waits in
\* the queue, and the command in the worker's hand is still pending
C29_Witness ==
    \E d \in DOMAIN device_workers : \E c, o, n \in Admitted :
        /\ c < o /\ o < n
        /\ commands[c].device = d /\ commands[o].device = d /\ commands[n].device = d
        /\ commands[c].relay_number = commands[o].relay_number
        /\ commands[c].relay_number = commands[n].relay_number
        /\ InHand(d, c)
        /\ future[c] = "pending"
        /\ future[o] = "Superseded"
        /\ device_queues[d] = <<n>>

\* C30: an accepted admission for relay r of device d leaves the commands of
\* d's queue for the other relays in the queue, in the order they had, before
\* the new command and with their futures as they were, and leaves the
\* queue, the worker, the command in hand and device_last_command of every
\* other device as they were.
C30_AdmissionFrame ==
    [][commands' # commands =>
          LET n == Len(commands')
              d == commands'[n].device
              r == commands'[n].relay_number
              q == QueueOf(d)
              after == device_queues'[d]
              stays == {i \in 1..Len(q) : commands[q[i]].relay_number # r}
          IN
          /\ Len(after) = Cardinality(stays) + 1
          /\ after[Len(after)] = n
          /\ \A i \in stays :
                /\ \E j \in 1..(Len(after) - 1) : after[j] = q[i]
                /\ future[q[i]] = "pending"
                /\ future'[q[i]] = "pending"
          /\ \A i, k \in stays :
                i < k => \E j, l \in 1..Len(after) :
                            j < l /\ after[j] = q[i] /\ after[l] = q[k]
          /\ \A o \in Devices \ {d} :
                /\ o \in DOMAIN device_queues' <=> o \in DOMAIN device_queues
                /\ o \in DOMAIN device_queues =>
                      /\ device_queues'[o] = device_queues[o]
                      /\ device_workers'[o] = device_workers[o]
                      /\ device_last_command'[o] = device_last_command[o]
                /\ command'[o] = command[o]
                /\ wake'[o] = wake[o]
                /\ \A c \in Admitted : commands[c].device = o => future'[c] = future[c]]_vars

\* the latest admission found two commands for other relays in the queue of
\* its device, which stand before it in their order, while the worker of the
\* other device executes a command
C30_Witness ==
    \E d, o \in DOMAIN device_queues : \E a, b, x, n \in Admitted :
        /\ d # o
        /\ a < b /\ b < n /\ x < n
        /\ n = Len(commands)
        /\ device_queues[d] = <<a, b, n>>
        /\ InHand(o, x)
        /\ future[a] = "pending" /\ future[b] = "pending"

====
